---- MODULE Spec2Model ----
(***************************************************************************)
(* Container-platform detection of deno-infra-sense: the orchestrator of   *)
(* src/detection/mod.ts (safeDetect, detectKubernetesPlatform, the         *)
(* standalone detector list, the 30 s result cache, resetCachedPlatform)   *)
(* over the probes of src/detection/utils.ts, and the classification table *)
(* of src/detection/types.ts.                                              *)
(*                                                                         *)
(* detectContainerPlatform is an async function: it runs synchronously     *)
(* from its entry through the cache check to its first `await`, and after  *)
(* that one probe at a time, suspending at every `await safeDetect(...)`.  *)
(* Other calls, resetCachedPlatform and the passing of time interleave at  *)
(* these suspension points and nowhere else.                               *)
(***************************************************************************)
EXTENDS Integers, Sequences, FiniteSets, TLC

----------------------------------------------------------------------------
(* Bounds of the model *)

\* detectContainerPlatform is called at most this many times in a behaviour
MaxCalls == 2

\* the clock is watched for this many cache lifetimes
MaxPeriods == 1

----------------------------------------------------------------------------
(* src/detection/mod.ts: the ContainerPlatform enum and the constants *)

ContainerPlatform ==
    [ KubernetesCriO   |-> "Kubernetes (CRI-O)",
      KubernetesDocker |-> "Kubernetes (Docker)",
      KubernetesOther  |-> "Kubernetes (other)",
      Docker           |-> "Docker",
      Podman           |-> "Podman",
      CRIO             |-> "CRI-O",
      DockerCgroup     |-> "Docker (via cgroup)",
      Containerd       |-> "containerd",
      Rkt              |-> "rkt",
      LXCLXD           |-> "LXC/LXD",
      SystemdNspawn    |-> "systemd-nspawn",
      Host             |-> "Host (no recognized container)" ]

\* the values of the enum
ContainerPlatformValues == { ContainerPlatform[k] : k \in DOMAIN ContainerPlatform }

CACHE_TTL_MS == 30000

----------------------------------------------------------------------------
(* src/detection/types.ts: categories, runtimes and the classification table *)

PlatformType ==
    [ Kubernetes |-> "kubernetes", Standalone |-> "standalone", Host |-> "host" ]

\* the enum with the value of LXC copied from the member above it
RuntimeLxcCopied ==
    [ Docker |-> "docker", Crio |-> "crio", Containerd |-> "containerd",
      Podman |-> "podman", Rkt |-> "rkt", LXC |-> "rkt",
      SystemdNspawn |-> "systemd-nspawn", Other |-> "other", None |-> "none" ]

Runtime ==
    [ Docker |-> "docker", Crio |-> "crio", Containerd |-> "containerd",
      Podman |-> "podman", Rkt |-> "rkt", LXC |-> "lxc",
      SystemdNspawn |-> "systemd-nspawn", Other |-> "other", None |-> "none" ]

ContainerPlatforms ==
    [ KubernetesCriO   |-> [ type |-> PlatformType.Kubernetes, runtime |-> Runtime.Crio,
                             displayName |-> "Kubernetes (CRI-O)" ],
      KubernetesDocker |-> [ type |-> PlatformType.Kubernetes, runtime |-> Runtime.Docker,
                             displayName |-> "Kubernetes (Docker)" ],
      KubernetesOther  |-> [ type |-> PlatformType.Kubernetes, runtime |-> Runtime.Other,
                             displayName |-> "Kubernetes (other)" ],
      Docker           |-> [ type |-> PlatformType.Standalone, runtime |-> Runtime.Docker,
                             displayName |-> "Docker" ],
      Podman           |-> [ type |-> PlatformType.Standalone, runtime |-> Runtime.Podman,
                             displayName |-> "Podman" ],
      Crio             |-> [ type |-> PlatformType.Standalone, runtime |-> Runtime.Crio,
                             displayName |-> "CRI-O" ],
      DockerCgroup     |-> [ type |-> PlatformType.Standalone, runtime |-> Runtime.Docker,
                             displayName |-> "Docker (via cgroup)" ],
      Containerd       |-> [ type |-> PlatformType.Standalone, runtime |-> Runtime.Containerd,
                             displayName |-> "containerd" ],
      Rkt              |-> [ type |-> PlatformType.Standalone, runtime |-> Runtime.Rkt,
                             displayName |-> "rkt" ],
      LXCLXD           |-> [ type |-> PlatformType.Standalone, runtime |-> Runtime.LXC,
                             displayName |-> "LXC/LXD" ],
      SystemdNspawn    |-> [ type |-> PlatformType.Standalone,
                             runtime |-> Runtime.SystemdNspawn,
                             displayName |-> "systemd-nspawn" ],
      Host             |-> [ type |-> PlatformType.Host, runtime |-> Runtime.None,
                             displayName |-> "Host (no recognized container)" ] ]

\* the entries of the table that carry the display label `name`
EntriesNamed(name) ==
    { ContainerPlatforms[k] : k \in { j \in DOMAIN ContainerPlatforms :
                                        ContainerPlatforms[j].displayName = name } }

----------------------------------------------------------------------------
(* The probes (src/detection/utils.ts) as the orchestrator sees them: a    *)
(* probe invoked through safeDetect returns true, returns false or throws. *)

Probes ==
    { "detectKubernetes", "detectDockerEnv", "detectDockerCgroup", "detectPodman",
      "detectCrio", "detectContainerd", "detectRkt", "detectLXC",
      "detectSystemdNspawn" }

Outcomes == { "true", "false", "throw" }

----------------------------------------------------------------------------
(* src/detection/utils.ts: the probes over the raw signals. A string is the *)
(* sequence of its characters.                                              *)

UpperToLower ==
    [ A |-> "a", B |-> "b", C |-> "c", D |-> "d", E |-> "e", F |-> "f", G |-> "g",
      H |-> "h", I |-> "i", J |-> "j", K |-> "k", L |-> "l", M |-> "m", N |-> "n",
      O |-> "o", P |-> "p", Q |-> "q", R |-> "r", S |-> "s", T |-> "t", U |-> "u",
      V |-> "v", W |-> "w", X |-> "x", Y |-> "y", Z |-> "z" ]

\* String.prototype.toLowerCase
ToLowerCase(str) ==
    [ i \in DOMAIN str |->
        IF str[i] \in DOMAIN UpperToLower THEN UpperToLower[str[i]] ELSE str[i] ]

\* String.prototype.toUpperCase
ToUpperCase(str) ==
    [ i \in DOMAIN str |->
        IF \E u \in DOMAIN UpperToLower : UpperToLower[u] = str[i]
        THEN CHOOSE u \in DOMAIN UpperToLower : UpperToLower[u] = str[i]
        ELSE str[i] ]

\* String.prototype.includes
Includes(str, sub) ==
    \E i \in 0 .. (Len(str) - Len(sub)) : SubSeq(str, i + 1, i + Len(sub)) = sub

\* the runtime names the probes compare the "container" variable with
RuntimeNames ==
    [ docker     |-> << "d", "o", "c", "k", "e", "r" >>,
      podman     |-> << "p", "o", "d", "m", "a", "n" >>,
      crio       |-> << "c", "r", "i", "o" >>,
      containerd |-> << "c", "o", "n", "t", "a", "i", "n", "e", "r", "d" >>,
      rkt        |-> << "r", "k", "t" >>,
      lxc        |-> << "l", "x", "c" >>,
      nspawn     |-> << "s", "y", "s", "t", "e", "m", "d", "-",
                        "n", "s", "p", "a", "w", "n" >> ]

\* Deno.env.get(name): it throws when the read is denied, and returns undefined
\* or the value
EnvDenied   == [ status |-> "denied", value |-> << >> ]
EnvUnset    == [ status |-> "unset",  value |-> << >> ]
EnvSet(str) == [ status |-> "set",    value |-> str ]

\* exists(path) of @std/fs resolves to true or false, or rejects
PathStates == { "exists", "absent", "error" }

\* exists("/run/.containerenv") followed by Deno.readTextFile of it
FileAbsent      == [ exists |-> "absent", read |-> "error", contents |-> << >> ]
FileExistsError == [ exists |-> "error",  read |-> "error", contents |-> << >> ]
FileReadError   == [ exists |-> "exists", read |-> "error", contents |-> << >> ]
FileWith(str)   == [ exists |-> "exists", read |-> "ok",    contents |-> str ]

\* Deno.resolveDns("kubernetes.default.svc", "A"): it rejects, or resolves to a
\* list of n addresses
DnsError    == [ status |-> "error", addrs |-> 0 ]
DnsFound(n) == [ status |-> "ok",    addrs |-> n ]

\* detectKubernetes giving up when the service-account directory cannot be
\* checked
DetectKubernetesRunStopsOnError(sig) ==
    IF sig.serviceHost.status = "denied"
    THEN [ outcome |-> "throw", io |-> << "env" >> ]
    ELSE IF sig.serviceHost.status = "set" /\ Len(sig.serviceHost.value) > 0
    THEN [ outcome |-> "true", io |-> << "env" >> ]
    ELSE IF sig.serviceAccount = "exists"
    THEN [ outcome |-> "true", io |-> << "env", "exists" >> ]
    ELSE IF sig.serviceAccount = "error"
    THEN [ outcome |-> "false", io |-> << "env", "exists" >> ]
    ELSE IF sig.dns.status = "ok" /\ sig.dns.addrs > 0
    THEN [ outcome |-> "true", io |-> << "env", "exists", "resolveDns" >> ]
    ELSE [ outcome |-> "false", io |-> << "env", "exists", "resolveDns" >> ]

\* detectKubernetes without its first check, the environment variable
DetectKubernetesRunNoEnv(sig) ==
    IF sig.serviceAccount = "exists"
    THEN [ outcome |-> "true", io |-> << "exists" >> ]
    ELSE IF sig.dns.status = "ok" /\ sig.dns.addrs > 0
    THEN [ outcome |-> "true", io |-> << "exists", "resolveDns" >> ]
    ELSE [ outcome |-> "false", io |-> << "exists", "resolveDns" >> ]

\* detectKubernetes: what it does, and the primitives it has called, in order
DetectKubernetesRun(sig) ==
    IF sig.serviceHost.status = "denied"
    THEN [ outcome |-> "throw", io |-> << "env" >> ]
    ELSE IF sig.serviceHost.status = "set" /\ Len(sig.serviceHost.value) > 0
    THEN [ outcome |-> "true", io |-> << "env" >> ]
    ELSE IF sig.serviceAccount = "exists"
    THEN [ outcome |-> "true", io |-> << "env", "exists" >> ]
    ELSE IF sig.dns.status = "ok" /\ sig.dns.addrs > 0
    THEN [ outcome |-> "true", io |-> << "env", "exists", "resolveDns" >> ]
    ELSE [ outcome |-> "false", io |-> << "env", "exists", "resolveDns" >> ]

DetectKubernetes(sig) == DetectKubernetesRun(sig).outcome

DetectDockerEnv(sig) ==
    IF sig.dockerenv = "exists" THEN "true" ELSE "false"

\* contEnv === name
EnvEquals(sig, name) ==
    IF sig.container.status = "denied" THEN "throw"
    ELSE IF sig.container.status = "set" /\ sig.container.value = name
    THEN "true" ELSE "false"

\* contEnv && contEnv.toLowerCase() === name
EnvNamesLowerCased(sig, name) ==
    /\ sig.container.status = "set"
    /\ Len(sig.container.value) > 0
    /\ ToLowerCase(sig.container.value) = name

\* the try block over /run/.containerenv: it exists, it can be read and its
\* lower-cased contents include name
ContainerenvMentions(sig, name) ==
    /\ sig.containerenv.exists = "exists"
    /\ sig.containerenv.read = "ok"
    /\ Includes(ToLowerCase(sig.containerenv.contents), name)

DetectDockerCgroup(sig) == EnvEquals(sig, RuntimeNames.docker)

\* detectPodman looking at /run/.containerenv only
DetectPodmanFileOnly(sig) ==
    IF sig.container.status = "denied" THEN "throw"
    ELSE IF ContainerenvMentions(sig, RuntimeNames.podman) THEN "true"
    ELSE "false"

DetectPodman(sig) ==
    IF sig.container.status = "denied" THEN "throw"
    ELSE IF EnvNamesLowerCased(sig, RuntimeNames.podman) THEN "true"
    ELSE IF ContainerenvMentions(sig, RuntimeNames.podman) THEN "true"
    ELSE "false"

DetectCrio(sig) ==
    IF sig.container.status = "denied" THEN "throw"
    ELSE IF EnvNamesLowerCased(sig, RuntimeNames.crio) THEN "true"
    ELSE IF ContainerenvMentions(sig, RuntimeNames.crio) THEN "true"
    ELSE "false"

DetectContainerd(sig) == EnvEquals(sig, RuntimeNames.containerd)

DetectRkt(sig) == EnvEquals(sig, RuntimeNames.rkt)

DetectLXC(sig) == EnvEquals(sig, RuntimeNames.lxc)

DetectSystemdNspawn(sig) ==
    IF sig.container.status = "denied" THEN "throw"
    ELSE IF EnvNamesLowerCased(sig, RuntimeNames.nspawn) THEN "true"
    ELSE IF sig.nspawn = "exists" THEN "true"
    ELSE "false"

\* what each probe does over the signals sig
ProbeOutcomes(sig) ==
    [ detectKubernetes    |-> DetectKubernetes(sig),
      detectDockerEnv     |-> DetectDockerEnv(sig),
      detectDockerCgroup  |-> DetectDockerCgroup(sig),
      detectPodman        |-> DetectPodman(sig),
      detectCrio          |-> DetectCrio(sig),
      detectContainerd    |-> DetectContainerd(sig),
      detectRkt           |-> DetectRkt(sig),
      detectLXC           |-> DetectLXC(sig),
      detectSystemdNspawn |-> DetectSystemdNspawn(sig) ]

\* the signals of the model
ServiceHostValues ==
    { EnvDenied, EnvUnset, EnvSet(<< >>),
      EnvSet(<< "1", "0", ".", "0", ".", "0", ".", "1" >>) }

ContainerValues ==
    { EnvDenied, EnvUnset, EnvSet(<< >>) }
        \cup { EnvSet(RuntimeNames[n]) : n \in DOMAIN RuntimeNames }
        \cup { EnvSet(ToUpperCase(RuntimeNames[n])) : n \in DOMAIN RuntimeNames }

ContainerenvValues ==
    { FileAbsent, FileExistsError, FileReadError,
      FileWith(<< "e", "=", "p", "o", "d", "m", "a", "n" >>),
      FileWith(<< "E", "=", "C", "R", "I", "O" >>),
      FileWith(<< "x" >>) }

DnsValues == { DnsError, DnsFound(0), DnsFound(1) }

SignalSpace ==
    [ serviceHost    : ServiceHostValues,
      container      : ContainerValues,
      serviceAccount : PathStates,
      dockerenv      : PathStates,
      containerenv   : ContainerenvValues,
      nspawn         : PathStates,
      dns            : DnsValues ]

\* the probes are stubs: outcome is chosen, not computed
Stubbed == [ stubbed |-> TRUE ]

----------------------------------------------------------------------------
VARIABLES
    signals,        \* the environment variables, paths, file and DNS the probes
                    \* read, or Stubbed
    outcome,        \* what each probe does when invoked in this environment
    clock,          \* Date.now(), in ms since the process started
    cachedResult,   \* _cachedResult: {} for null, or { [platform, timestamp] }
    resetPending,   \* history: resetCachedPlatform has run and no call of
                    \* detectContainerPlatform has been made since
    call            \* the calls of detectContainerPlatform, by order of invocation

vars == << signals, outcome, clock, cachedResult, resetPending, call >>

Calls == 1 .. MaxCalls

\* the instants at which the clock is read: the start, every whole number of
\* cache lifetimes after it, and 1 ms after each of these, so that an entry is
\* seen at the ages 0, 1, CACHE_TTL_MS - 1, CACHE_TTL_MS and CACHE_TTL_MS + 1
TimePoints ==
    UNION { { k * CACHE_TTL_MS, k * CACHE_TTL_MS + 1 } : k \in 0 .. MaxPeriods }

\* the entry held by a non-null cache slot
Entry(cached) == CHOOSE e \in cached : TRUE

----------------------------------------------------------------------------
(* src/detection/mod.ts: the pure parts of the orchestrator *)

\* safeDetect without its catch: the probe's exception leaves safeDetect
SafeDetectRethrows(o, label) ==
    [ detected |-> (o = "true"),
      raised   |-> (o = "throw"),
      error    |-> << >> ]

\* safeDetect suppressing the exception without logging it
SafeDetectSilent(o, label) ==
    [ detected |-> (o = "true"),
      raised   |-> FALSE,
      error    |-> << >> ]

\* safeDetect: the probe's value, or false with one error-level log entry that
\* carries the label when the probe throws; nothing is rethrown
SafeDetect(o, label) ==
    [ detected |-> (o = "true"),
      raised   |-> FALSE,
      error    |-> IF o = "throw" THEN << label >> ELSE << >> ]

\* detectKubernetesPlatform asking for Docker before CRI-O
kubernetesDetectorsDockerFirst ==
    << [ label |-> ContainerPlatform.KubernetesDocker, fn |-> "detectDockerCgroup" ],
       [ label |-> ContainerPlatform.KubernetesCriO,   fn |-> "detectCrio" ] >>

\* detectKubernetesPlatform: CRI-O first, then Docker via cgroup, each under the
\* label of the platform it stands for; "other" when neither is detected
kubernetesDetectors ==
    << [ label |-> ContainerPlatform.KubernetesCriO,   fn |-> "detectCrio" ],
       [ label |-> ContainerPlatform.KubernetesDocker, fn |-> "detectDockerCgroup" ] >>

\* the fallback returning the label the gate is logged under, which is no member
\* of the enum
kubernetesFallbackGateLabel == "Kubernetes"

\* the fallback leaving the Kubernetes branch for the host
kubernetesFallbackHost == ContainerPlatform.Host

kubernetesFallback == ContainerPlatform.KubernetesOther

\* the standalone list with the cgroup-derived Docker check moved to the front
standaloneDetectorsCgroupFirst ==
    << [ label |-> ContainerPlatform.DockerCgroup,  fn |-> "detectDockerCgroup" ],
       [ label |-> ContainerPlatform.Docker,        fn |-> "detectDockerEnv" ],
       [ label |-> ContainerPlatform.Podman,        fn |-> "detectPodman" ],
       [ label |-> ContainerPlatform.CRIO,          fn |-> "detectCrio" ],
       [ label |-> ContainerPlatform.Containerd,    fn |-> "detectContainerd" ],
       [ label |-> ContainerPlatform.Rkt,           fn |-> "detectRkt" ],
       [ label |-> ContainerPlatform.LXCLXD,        fn |-> "detectLXC" ],
       [ label |-> ContainerPlatform.SystemdNspawn, fn |-> "detectSystemdNspawn" ] >>

standaloneDetectors ==
    << [ label |-> ContainerPlatform.Docker,        fn |-> "detectDockerEnv" ],
       [ label |-> ContainerPlatform.Podman,        fn |-> "detectPodman" ],
       [ label |-> ContainerPlatform.CRIO,          fn |-> "detectCrio" ],
       [ label |-> ContainerPlatform.DockerCgroup,  fn |-> "detectDockerCgroup" ],
       [ label |-> ContainerPlatform.Containerd,    fn |-> "detectContainerd" ],
       [ label |-> ContainerPlatform.Rkt,           fn |-> "detectRkt" ],
       [ label |-> ContainerPlatform.LXCLXD,        fn |-> "detectLXC" ],
       [ label |-> ContainerPlatform.SystemdNspawn, fn |-> "detectSystemdNspawn" ] >>

hostPlatform == ContainerPlatform.Host

\* the cache check with an entry that never expires
CacheValidNoExpiry(forceRefresh, cached, now) ==
    /\ ~forceRefresh
    /\ cached # {}

\* the cache check with the strict comparison of the README
CacheValidStrict(forceRefresh, cached, now) ==
    /\ ~forceRefresh
    /\ cached # {}
    /\ now - Entry(cached).timestamp < CACHE_TTL_MS

\* the cache check without the forceRefresh test
CacheValidIgnoresForce(forceRefresh, cached, now) ==
    /\ cached # {}
    /\ now - Entry(cached).timestamp <= CACHE_TTL_MS

\* the cache check at the entry of detectContainerPlatform
CacheValid(forceRefresh, cached, now) ==
    /\ ~forceRefresh
    /\ cached # {}
    /\ now - Entry(cached).timestamp <= CACHE_TTL_MS

\* the cache entry a pass that entered at `now` stores for `platform`
CacheEntry(platform, now) == [ platform |-> platform, timestamp |-> now ]

\* the first detector of ds, from position i on, whose probe safeDetect reports
\* detected, or the fallback: what a pass over ds returns in environment env
RECURSIVE FirstMatch(_, _, _, _)
FirstMatch(ds, env, i, fallback) ==
    IF i > Len(ds) THEN fallback
    ELSE IF SafeDetect(env[ds[i].fn], ds[i].label).detected THEN ds[i].label
    ELSE FirstMatch(ds, env, i + 1, fallback)

\* the platform a detection pass (a cache miss) computes in environment env
PassResult(env) ==
    IF SafeDetect(env["detectKubernetes"], "Kubernetes").detected
    THEN FirstMatch(kubernetesDetectors, env, 1, kubernetesFallback)
    ELSE FirstMatch(standaloneDetectors, env, 1, hostPlatform)

----------------------------------------------------------------------------
(* The calls *)

IdleCall ==
    [ pc           |-> "idle",
      forceRefresh |-> FALSE,
      now          |-> 0,
      idx          |-> 0,       \* position in the detector list being walked
      invoked      |-> << >>,   \* the probes this call has invoked, in order
      errors       |-> << >>,   \* the labels it has logged at error level
      result       |-> "",      \* the platform it returned
      hit          |-> FALSE,   \* it returned the cached platform
      seen         |-> {},      \* history: the cache slot as found at entry
      wrote        |-> {},      \* history: the slot content it stored
      resetSince   |-> FALSE,   \* history: resetCachedPlatform ran after its entry
      afterReset   |-> FALSE ]  \* history: it was the first call after a reset

Started(c)  == call[c].pc # "idle"
InFlight(c) == call[c].pc \in { "awaitKubernetes", "awaitKubernetesRuntime",
                                "awaitStandalone" }
Returned(c) == call[c].pc = "returned"

\* the end of a pass with the store left out of the host fallback
FinishHostNotStored(c, platform, errs) ==
    /\ cachedResult' = IF platform = ContainerPlatform.Host
                       THEN cachedResult
                       ELSE { CacheEntry(platform, call[c].now) }
    /\ call' = [ call EXCEPT ![c].pc = "returned",
                             ![c].result = platform,
                             ![c].errors = call[c].errors \o errs,
                             ![c].wrote = { CacheEntry(platform, call[c].now) } ]

\* the pass of call c ends: it stores its result and returns it
Finish(c, platform, errs) ==
    /\ cachedResult' = { CacheEntry(platform, call[c].now) }
    /\ call' = [ call EXCEPT ![c].pc = "returned",
                             ![c].result = platform,
                             ![c].errors = call[c].errors \o errs,
                             ![c].wrote = { CacheEntry(platform, call[c].now) } ]

\* an exception leaves detectContainerPlatform: nothing is stored
Escape(c) ==
    /\ call' = [ call EXCEPT ![c].pc = "threw" ]
    /\ UNCHANGED cachedResult

\* the pass starting the detector at position i of ds together with the one
\* after it
InvokeTwoAtOnce(c, pc, ds, i, errs) ==
    /\ call' = [ call EXCEPT ![c].pc = pc,
                             ![c].idx = i,
                             ![c].errors = call[c].errors \o errs,
                             ![c].invoked =
                                 IF i < Len(ds)
                                 THEN call[c].invoked \o << ds[i].fn, ds[i + 1].fn >>
                                 ELSE Append(call[c].invoked, ds[i].fn) ]
    /\ UNCHANGED cachedResult

\* the pass of call c goes on to the detector at position i of ds
Invoke(c, pc, ds, i, errs) ==
    /\ call' = [ call EXCEPT ![c].pc = pc,
                             ![c].idx = i,
                             ![c].errors = call[c].errors \o errs,
                             ![c].invoked = Append(call[c].invoked, ds[i].fn) ]
    /\ UNCHANGED cachedResult

----------------------------------------------------------------------------
(* Actions *)

\* detectContainerPlatform marking the slot with a provisional host entry when
\* it starts a pass
DetectStoresProvisional(c, forceRefresh) ==
    /\ call[c].pc = "idle"
    /\ \A d \in Calls : d < c => Started(d)
    /\ IF CacheValid(forceRefresh, cachedResult, clock)
       THEN call' = [ call EXCEPT ![c].pc = "returned",
                                  ![c].forceRefresh = forceRefresh,
                                  ![c].now = clock,
                                  ![c].seen = cachedResult,
                                  ![c].hit = TRUE,
                                  ![c].afterReset = resetPending,
                                  ![c].result = Entry(cachedResult).platform ]
       ELSE call' = [ call EXCEPT ![c].pc = "awaitKubernetes",
                                  ![c].forceRefresh = forceRefresh,
                                  ![c].now = clock,
                                  ![c].seen = cachedResult,
                                  ![c].afterReset = resetPending,
                                  ![c].invoked = << "detectKubernetes" >> ]
    /\ resetPending' = FALSE
    /\ cachedResult' = IF CacheValid(forceRefresh, cachedResult, clock)
                       THEN cachedResult
                       ELSE { CacheEntry(hostPlatform, clock) }
    /\ UNCHANGED << signals, outcome, clock >>

\* detectContainerPlatform with a sliding TTL: a hit stamps the entry anew
DetectSlidingTtl(c, forceRefresh) ==
    /\ call[c].pc = "idle"
    /\ \A d \in Calls : d < c => Started(d)
    /\ IF CacheValid(forceRefresh, cachedResult, clock)
       THEN call' = [ call EXCEPT ![c].pc = "returned",
                                  ![c].forceRefresh = forceRefresh,
                                  ![c].now = clock,
                                  ![c].seen = cachedResult,
                                  ![c].hit = TRUE,
                                  ![c].afterReset = resetPending,
                                  ![c].result = Entry(cachedResult).platform ]
       ELSE call' = [ call EXCEPT ![c].pc = "awaitKubernetes",
                                  ![c].forceRefresh = forceRefresh,
                                  ![c].now = clock,
                                  ![c].seen = cachedResult,
                                  ![c].afterReset = resetPending,
                                  ![c].invoked = << "detectKubernetes" >> ]
    /\ resetPending' = FALSE
    /\ cachedResult' = IF CacheValid(forceRefresh, cachedResult, clock)
                       THEN { CacheEntry(Entry(cachedResult).platform, clock) }
                       ELSE cachedResult
    /\ UNCHANGED << signals, outcome, clock >>

\* detectContainerPlatform not using the cached entry while a pass is in flight
DetectMissesDuringPass(c, forceRefresh) ==
    /\ call[c].pc = "idle"
    /\ \A d \in Calls : d < c => Started(d)
    /\ IF CacheValid(forceRefresh, cachedResult, clock) /\ \A d \in Calls : ~InFlight(d)
       THEN call' = [ call EXCEPT ![c].pc = "returned",
                                  ![c].forceRefresh = forceRefresh,
                                  ![c].now = clock,
                                  ![c].seen = cachedResult,
                                  ![c].hit = TRUE,
                                  ![c].afterReset = resetPending,
                                  ![c].result = Entry(cachedResult).platform ]
       ELSE call' = [ call EXCEPT ![c].pc = "awaitKubernetes",
                                  ![c].forceRefresh = forceRefresh,
                                  ![c].now = clock,
                                  ![c].seen = cachedResult,
                                  ![c].afterReset = resetPending,
                                  ![c].invoked = << "detectKubernetes" >> ]
    /\ resetPending' = FALSE
    /\ UNCHANGED << signals, outcome, clock, cachedResult >>

\* detectContainerPlatform(logger, {forceRefresh}) from its entry to the cached
\* return or to its first await, the Kubernetes gate probe
Detect(c, forceRefresh) ==
    /\ call[c].pc = "idle"
    /\ \A d \in Calls : d < c => Started(d)
    /\ IF CacheValid(forceRefresh, cachedResult, clock)
       THEN call' = [ call EXCEPT ![c].pc = "returned",
                                  ![c].forceRefresh = forceRefresh,
                                  ![c].now = clock,
                                  ![c].seen = cachedResult,
                                  ![c].hit = TRUE,
                                  ![c].afterReset = resetPending,
                                  ![c].result = Entry(cachedResult).platform ]
       ELSE call' = [ call EXCEPT ![c].pc = "awaitKubernetes",
                                  ![c].forceRefresh = forceRefresh,
                                  ![c].now = clock,
                                  ![c].seen = cachedResult,
                                  ![c].afterReset = resetPending,
                                  ![c].invoked = << "detectKubernetes" >> ]
    /\ resetPending' = FALSE
    /\ UNCHANGED << signals, outcome, clock, cachedResult >>

\* the gate taking the Kubernetes branch also when its probe has thrown
KubernetesSettledThrowTakesBranch(c) ==
    /\ call[c].pc = "awaitKubernetes"
    /\ LET r == SafeDetect(outcome["detectKubernetes"], "Kubernetes")
       IN  IF r.detected \/ r.error # << >>
           THEN Invoke(c, "awaitKubernetesRuntime", kubernetesDetectors, 1, r.error)
           ELSE Invoke(c, "awaitStandalone", standaloneDetectors, 1, r.error)
    /\ UNCHANGED << signals, outcome, clock, resetPending >>

\* the Kubernetes gate probe settles: on to detectKubernetesPlatform or to the
\* standalone detectors
KubernetesSettled(c) ==
    /\ call[c].pc = "awaitKubernetes"
    /\ LET r == SafeDetect(outcome["detectKubernetes"], "Kubernetes")
       IN  IF r.raised THEN Escape(c)
           ELSE IF r.detected
           THEN Invoke(c, "awaitKubernetesRuntime", kubernetesDetectors, 1, r.error)
           ELSE Invoke(c, "awaitStandalone", standaloneDetectors, 1, r.error)
    /\ UNCHANGED << signals, outcome, clock, resetPending >>

\* a probe of detectKubernetesPlatform settles
KubernetesRuntimeSettled(c) ==
    /\ call[c].pc = "awaitKubernetesRuntime"
    /\ LET i == call[c].idx
           d == kubernetesDetectors[i]
           r == SafeDetect(outcome[d.fn], d.label)
       IN  IF r.raised THEN Escape(c)
           ELSE IF r.detected THEN Finish(c, d.label, r.error)
           ELSE IF i < Len(kubernetesDetectors)
           THEN Invoke(c, "awaitKubernetesRuntime", kubernetesDetectors, i + 1, r.error)
           ELSE Finish(c, kubernetesFallback, r.error)
    /\ UNCHANGED << signals, outcome, clock, resetPending >>

\* the standalone loop trying a probe again when it has thrown
StandaloneSettledRetriesThrow(c) ==
    /\ call[c].pc = "awaitStandalone"
    /\ LET i == call[c].idx
           d == standaloneDetectors[i]
           r == SafeDetect(outcome[d.fn], d.label)
       IN  IF r.detected THEN Finish(c, d.label, r.error)
           ELSE IF r.error # << >>
           THEN Invoke(c, "awaitStandalone", standaloneDetectors, i, r.error)
           ELSE IF i < Len(standaloneDetectors)
           THEN Invoke(c, "awaitStandalone", standaloneDetectors, i + 1, r.error)
           ELSE Finish(c, hostPlatform, r.error)
    /\ UNCHANGED << signals, outcome, clock, resetPending >>

\* the standalone loop with one cursor for all passes: a pass whose probe was
\* false goes on behind the furthest position any pass in the loop has reached
StandaloneSettledSharedCursor(c) ==
    /\ call[c].pc = "awaitStandalone"
    /\ LET i == call[c].idx
           d == standaloneDetectors[i]
           r == SafeDetect(outcome[d.fn], d.label)
           k == CHOOSE m \in 1 .. Len(standaloneDetectors) :
                   /\ \E e \in Calls : call[e].pc = "awaitStandalone" /\ call[e].idx = m
                   /\ \A e \in Calls : call[e].pc = "awaitStandalone" => call[e].idx <= m
       IN  IF r.detected THEN Finish(c, d.label, r.error)
           ELSE IF k < Len(standaloneDetectors)
           THEN Invoke(c, "awaitStandalone", standaloneDetectors, k + 1, r.error)
           ELSE Finish(c, hostPlatform, r.error)
    /\ UNCHANGED << signals, outcome, clock, resetPending >>

\* a probe of the standalone loop settles
StandaloneSettled(c) ==
    /\ call[c].pc = "awaitStandalone"
    /\ LET i == call[c].idx
           d == standaloneDetectors[i]
           r == SafeDetect(outcome[d.fn], d.label)
       IN  IF r.raised THEN Escape(c)
           ELSE IF r.detected THEN Finish(c, d.label, r.error)
           ELSE IF i < Len(standaloneDetectors)
           THEN Invoke(c, "awaitStandalone", standaloneDetectors, i + 1, r.error)
           ELSE Finish(c, hostPlatform, r.error)
    /\ UNCHANGED << signals, outcome, clock, resetPending >>

\* resetCachedPlatform() dropping only an entry that has expired
ResetCachedPlatformKeepsFresh ==
    /\ cachedResult' = IF CacheValid(FALSE, cachedResult, clock) THEN cachedResult ELSE {}
    /\ resetPending' = TRUE
    /\ call' = [ c \in Calls |->
                   IF Started(c) THEN [ call[c] EXCEPT !.resetSince = TRUE ]
                   ELSE call[c] ]
    /\ UNCHANGED << signals, outcome, clock >>

\* resetCachedPlatform()
ResetCachedPlatform ==
    /\ cachedResult' = {}
    /\ resetPending' = TRUE
    /\ call' = [ c \in Calls |->
                   IF Started(c) THEN [ call[c] EXCEPT !.resetSince = TRUE ]
                   ELSE call[c] ]
    /\ UNCHANGED << signals, outcome, clock >>

\* time passes
Tick ==
    /\ \E t \in TimePoints : t > clock /\ clock' = t
    /\ UNCHANGED << signals, outcome, cachedResult, resetPending, call >>

----------------------------------------------------------------------------
(* Specifications *)

\* the environments in which every runtime probe returns true and the Kubernetes
\* gate returns true, returns false or throws: a pass takes two steps there, which
\* is what lets calls overlap in every way within the bounds
GateEnvironments ==
    { env \in [ Probes -> Outcomes ] :
        \A p \in Probes \ { "detectKubernetes" } : env[p] = "true" }

InitState ==
    /\ clock = 0
    /\ cachedResult = {}
    /\ resetPending = FALSE
    /\ call = [ c \in Calls |-> IdleCall ]

\* overlapping calls, resets and the passing of time
Init ==
    /\ signals = Stubbed
    /\ outcome \in GateEnvironments
    /\ InitState

Next ==
    \/ \E c \in Calls, forceRefresh \in BOOLEAN : Detect(c, forceRefresh)
    \/ \E c \in Calls : KubernetesSettled(c)
    \/ \E c \in Calls : KubernetesRuntimeSettled(c)
    \/ \E c \in Calls : StandaloneSettled(c)
    \/ ResetCachedPlatform
    \/ Tick

Spec == Init /\ [][Next]_vars

\* the same, in a process where an earlier call has completed a pass at time 0
\* and its entry is in the cache
InitWarm ==
    /\ signals = Stubbed
    /\ outcome \in GateEnvironments
    /\ clock = 0
    /\ cachedResult = { CacheEntry(PassResult(outcome), 0) }
    /\ resetPending = FALSE
    /\ call = [ c \in Calls |-> IdleCall ]

SpecWarm == InitWarm /\ [][Next]_vars

\* one call after the other, in every combination of probe outcomes
InitSeq ==
    /\ signals = Stubbed
    /\ outcome \in [ Probes -> Outcomes ]
    /\ InitState

NextSeq ==
    \/ \E c \in Calls, forceRefresh \in BOOLEAN :
          /\ \A d \in Calls : ~InFlight(d)
          /\ Detect(c, forceRefresh)
    \/ \E c \in Calls : KubernetesSettled(c)
    \/ \E c \in Calls : KubernetesRuntimeSettled(c)
    \/ \E c \in Calls : StandaloneSettled(c)

SpecSeq == InitSeq /\ [][NextSeq]_vars

\* the same, where every pending probe eventually settles
SpecSeqFair ==
    /\ SpecSeq
    /\ \A c \in Calls :
          WF_vars(KubernetesSettled(c) \/ KubernetesRuntimeSettled(c)
                      \/ StandaloneSettled(c))

\* overlapping calls over every combination of probes that return true or false
InitRace ==
    /\ signals = Stubbed
    /\ outcome \in [ Probes -> { "true", "false" } ]
    /\ InitState

NextRace ==
    \/ \E c \in Calls, forceRefresh \in BOOLEAN : Detect(c, forceRefresh)
    \/ \E c \in Calls : KubernetesSettled(c)
    \/ \E c \in Calls : KubernetesRuntimeSettled(c)
    \/ \E c \in Calls : StandaloneSettled(c)

SpecRace == InitRace /\ [][NextRace]_vars

\* one call after the other, the probes of utils.ts over every combination of
\* the signals
InitSignals ==
    /\ signals \in SignalSpace
    /\ outcome = ProbeOutcomes(signals)
    /\ InitState

SpecSignals == InitSignals /\ [][NextSeq]_vars

----------------------------------------------------------------------------
(* The properties *)

\* the probes a call has invoked
Invoked(c) == { call[c].invoked[i] : i \in DOMAIN call[c].invoked }

\* a call that ran a detection pass (a cache miss) to its end
Passed(c) == Returned(c) /\ ~call[c].hit

\* the (category, runtime) pairs of the specification: three Kubernetes variants,
\* seven standalone runtimes and the host
ValidCombinations ==
    { << "kubernetes", "crio" >>, << "kubernetes", "docker" >>,
      << "kubernetes", "other" >>,
      << "standalone", "docker" >>, << "standalone", "podman" >>,
      << "standalone", "crio" >>, << "standalone", "containerd" >>,
      << "standalone", "rkt" >>, << "standalone", "lxc" >>,
      << "standalone", "systemd-nspawn" >>,
      << "host", "none" >> }

\* the platform value p is a member of the enum and stands for a valid pairing
ValidClassification(p) ==
    /\ p \in ContainerPlatformValues
    /\ EntriesNamed(p) # {}
    /\ \A e \in EntriesNamed(p) :
          /\ << e.type, e.runtime >> \in ValidCombinations
          /\ e.runtime = "none" => e.type = "host"
          /\ e.runtime = "other" => e.type = "kubernetes"

\* C1: whatever the probes do (true, false, throw), whatever the cache holds and
\* whatever forceRefresh is, the value detectContainerPlatform returns and the
\* value it caches is a member of the ContainerPlatform enum whose (category,
\* runtime) pair is one of the 11 valid combinations: runtime none only with the
\* host, runtime other only with Kubernetes.
C1_ValidClassification ==
    /\ \A c \in Calls : Returned(c) => ValidClassification(call[c].result)
    /\ \A e \in cachedResult : ValidClassification(e.platform)

\* a cached (Kubernetes, other) is returned by a second call, in an environment
\* where a runtime probe throws
C1_Witness ==
    \E c \in Calls :
        /\ Returned(c) /\ call[c].hit
        /\ call[c].result = ContainerPlatform.KubernetesOther
        /\ outcome["detectCrio"] = "throw"

\* the environment env with probe p returning false
FalseFor(env, p) == [ env EXCEPT ![p] = "false" ]

\* C2: a probe that throws is as good as one that returns false: no exception
\* leaves detectContainerPlatform, and for every probe p that throws, the value
\* returned and the entry stored are those of the pass in which p returns false
\* and the other probes do what they do; when every probe throws the result is
\* the host.
C2_ThrowIsFalse ==
    \A c \in Calls :
        /\ call[c].pc # "threw"
        /\ Passed(c) =>
              /\ \A p \in Probes :
                    outcome[p] = "throw" =>
                        /\ call[c].result = PassResult(FalseFor(outcome, p))
                        /\ call[c].wrote =
                              { CacheEntry(PassResult(FalseFor(outcome, p)), call[c].now) }
              /\ (\A p \in Probes : outcome[p] = "throw") =>
                    call[c].result = ContainerPlatform.Host

\* a pass whose gate and first standalone probe throw returns Podman
C2_Witness ==
    \E c \in Calls :
        /\ Passed(c)
        /\ outcome["detectKubernetes"] = "throw"
        /\ outcome["detectDockerEnv"] = "throw"
        /\ outcome["detectPodman"] = "true"
        /\ call[c].result = ContainerPlatform.Podman
        /\ cachedResult = { CacheEntry(ContainerPlatform.Podman, call[c].now) }

\* C5: on a cache miss with the Kubernetes probe true and the CRI-O probe true the
\* result is Kubernetes (CRI-O) whatever the other probes do, and the
\* Docker-cgroup probe is not invoked in that pass.
C5_CrioFirst ==
    \A c \in Calls :
        (outcome["detectKubernetes"] = "true" /\ outcome["detectCrio"] = "true") =>
            /\ "detectDockerCgroup" \notin Invoked(c)
            /\ Passed(c) =>
                  /\ call[c].result = ContainerPlatform.KubernetesCriO
                  /\ call[c].wrote =
                        { CacheEntry(ContainerPlatform.KubernetesCriO, call[c].now) }

\* a pass returns Kubernetes (CRI-O) although the Docker-cgroup probe is true too
C5_Witness ==
    \E c \in Calls :
        /\ Passed(c)
        /\ outcome["detectKubernetes"] = "true"
        /\ outcome["detectCrio"] = "true"
        /\ outcome["detectDockerCgroup"] = "true"
        /\ outcome["detectDockerEnv"] = "throw"
        /\ call[c].result = ContainerPlatform.KubernetesCriO

\* C6: on a cache miss with the Kubernetes probe true and the CRI-O probe false or
\* throwing the result is Kubernetes (Docker) if the Docker-cgroup probe is true
\* and Kubernetes (other) otherwise; the Kubernetes branch has no third outcome.
C6_KubernetesDockerOrOther ==
    \A c \in Calls :
        (Passed(c) /\ outcome["detectKubernetes"] = "true") =>
            /\ call[c].result \in { ContainerPlatform.KubernetesCriO,
                                    ContainerPlatform.KubernetesDocker,
                                    ContainerPlatform.KubernetesOther }
            /\ outcome["detectCrio"] # "true" =>
                  call[c].result =
                      IF outcome["detectDockerCgroup"] = "true"
                      THEN ContainerPlatform.KubernetesDocker
                      ELSE ContainerPlatform.KubernetesOther

\* a pass in Kubernetes whose CRI-O and Docker-cgroup probes throw returns
\* Kubernetes (other)
C6_Witness ==
    \E c \in Calls :
        /\ Passed(c)
        /\ outcome["detectKubernetes"] = "true"
        /\ outcome["detectCrio"] = "throw"
        /\ outcome["detectDockerCgroup"] = "throw"
        /\ call[c].result = ContainerPlatform.KubernetesOther

\* the standalone order of the specification: Docker (primary), Podman, CRI-O,
\* Docker (cgroup), containerd, rkt, LXC/LXD, systemd-nspawn
StandaloneOrder ==
    << << "detectDockerEnv", "Docker" >>, << "detectPodman", "Podman" >>,
       << "detectCrio", "CRI-O" >>, << "detectDockerCgroup", "Docker (via cgroup)" >>,
       << "detectContainerd", "containerd" >>, << "detectRkt", "rkt" >>,
       << "detectLXC", "LXC/LXD" >>, << "detectSystemdNspawn", "systemd-nspawn" >> >>

\* the positions of the standalone order whose probe is true
TruePositions == { i \in DOMAIN StandaloneOrder : outcome[StandaloneOrder[i][1]] = "true" }

\* C7: on a cache miss with the Kubernetes probe false (or throwing), the result is
\* the platform of the first probe that is true in the standalone order, whatever
\* the probes after it do: Docker (primary) true yields standalone Docker; the
\* result is the host if and only if none of the eight is true.
C7_FirstStandaloneWins ==
    \A c \in Calls :
        (Passed(c) /\ outcome["detectKubernetes"] # "true") =>
            /\ \A i \in TruePositions :
                  (\A j \in TruePositions : i <= j) =>
                      call[c].result = StandaloneOrder[i][2]
            /\ (call[c].result = ContainerPlatform.Host) <=> (TruePositions = {})
            /\ outcome["detectDockerEnv"] = "true" =>
                  \A e \in EntriesNamed(call[c].result) :
                      e.type = "standalone" /\ e.runtime = "docker"

\* a pass returns Podman although CRI-O and Docker-cgroup are true as well
C7_Witness ==
    \E c \in Calls :
        /\ Passed(c)
        /\ outcome["detectKubernetes"] = "false"
        /\ outcome["detectDockerEnv"] = "false"
        /\ outcome["detectPodman"] = "true"
        /\ outcome["detectCrio"] = "true"
        /\ outcome["detectDockerCgroup"] = "true"
        /\ call[c].result = ContainerPlatform.Podman

\* the age, at the entry of call c, of the cache entry it found
SeenAge(c) == call[c].now - Entry(call[c].seen).timestamp

\* C3: of two calls without forceRefresh made within 30 seconds, with no
\* forceRefresh call and no resetCachedPlatform in between, only the first
\* invokes probes, and the second returns the same platform, however long the
\* probes of the first take and whether or not the first has finished when the
\* second is made.
C3_SecondCallProbesNothing ==
    \A c1, c2 \in Calls :
        ( /\ c1 < c2 /\ Started(c1) /\ Started(c2)
          /\ \A d \in Calls : Started(d) => ~call[d].forceRefresh
          /\ ~call[c1].hit
          /\ ~call[c1].resetSince
          /\ call[c2].now - call[c1].now <= 30000 ) =>
            /\ call[c2].invoked = << >>
            /\ (Returned(c1) /\ Returned(c2)) => call[c2].result = call[c1].result

\* C4: the first call of detectContainerPlatform made after resetCachedPlatform
\* runs the probes itself, in every interleaving: it never returns a cached
\* platform, which could only have been stored by a pass that began before the
\* reset.
C4_ResetForcesRerun ==
    \A c \in Calls : (Started(c) /\ call[c].afterReset) => ~call[c].hit

C10_ForceRefreshReruns ==
    [][ \A c \in Calls :
          call'[c].forceRefresh =>
              /\ ~call'[c].hit
              /\ call'[c].pc # "idle" => call'[c].invoked[1] = "detectKubernetes"
              /\ (call[c].pc # "returned" /\ call'[c].pc = "returned") =>
                    cachedResult' = { CacheEntry(call'[c].result, call'[c].now) } ]_vars

\* a call with forceRefresh found a fresh entry, ran its pass and replaced it
C10_Witness ==
    \E c \in Calls :
        /\ Passed(c) /\ call[c].forceRefresh
        /\ call[c].seen # {}
        /\ SeenAge(c) = 1
        /\ cachedResult = { CacheEntry(call[c].result, call[c].now) }
        /\ cachedResult # call[c].seen

\* C11: every detection pass ends by storing its platform in the cache slot, on
\* each of its three exits (Kubernetes branch, standalone match, host fallback),
\* replacing whatever the slot held: in the step in which a pass returns, the slot
\* becomes the single entry whose platform is the value returned.
C11_PassStoresWhatItReturns ==
    [][ \A c \in Calls :
          (call[c].pc # "returned" /\ call'[c].pc = "returned" /\ ~call'[c].hit) =>
              /\ call'[c].result \in ContainerPlatformValues
              /\ cachedResult' = { CacheEntry(call'[c].result, call'[c].now) }
              /\ \A e \in cachedResult' : e.platform = call'[c].result ]_vars

\* a forceRefresh pass that ends in the host fallback has replaced the entry of
\* the pass before it
C11_Witness ==
    \E c \in Calls :
        /\ Passed(c) /\ call[c].seen # {}
        /\ call[c].result = ContainerPlatform.Host
        /\ outcome["detectKubernetes"] = "throw"
        /\ cachedResult = { CacheEntry(ContainerPlatform.Host, call[c].now) }

\* the platforms detectContainerPlatform can return
Producible ==
    { kubernetesDetectors[i].label : i \in DOMAIN kubernetesDetectors }
        \cup { kubernetesFallback }
        \cup { standaloneDetectors[i].label : i \in DOMAIN standaloneDetectors }
        \cup { hostPlatform }

\* the display labels of the producible platforms that have the (category,
\* runtime) pair of the platform p
LabelsOfPairOf(p) ==
    { ContainerPlatforms[k].displayName :
        k \in { j \in DOMAIN ContainerPlatforms :
                  \E e \in EntriesNamed(p) :
                      /\ ContainerPlatforms[j].type = e.type
                      /\ ContainerPlatforms[j].runtime = e.runtime } }
        \cap Producible

\* C12, as stated: the display label is a function of the (category, runtime)
\* pair: a platform that is returned has the only label that producible platforms
\* of its pair have.
C12_LabelFunctionOfPair ==
    \A c \in Calls : Returned(c) => LabelsOfPairOf(call[c].result) = { call[c].result }

\* C12, amended: the (category, runtime) pair is a function of the display label,
\* and the label is a function of the pair for every pair but (standalone,
\* docker), which has the two labels "Docker" and "Docker (via cgroup)".
C12_LabelFunctionOfPairButDocker ==
    \A c \in Calls :
        Returned(c) =>
            /\ Cardinality(EntriesNamed(call[c].result)) = 1
            /\ LabelsOfPairOf(call[c].result) =
                  IF call[c].result \in { ContainerPlatform.Docker,
                                          ContainerPlatform.DockerCgroup }
                  THEN { ContainerPlatform.Docker, ContainerPlatform.DockerCgroup }
                  ELSE { call[c].result }

\* a pass returns "Docker (via cgroup)", the second label of (standalone, docker)
C12_Witness ==
    \E c \in Calls :
        /\ Passed(c)
        /\ call[c].result = ContainerPlatform.DockerCgroup
        /\ \A e \in EntriesNamed(call[c].result) :
              e.type = "standalone" /\ e.runtime = "docker"

----------------------------------------------------------------------------
(* The probes over the raw signals (SpecSignals) *)

\* the "container" variable holds a letter-case variant of name
ContainerNames(name) ==
    /\ signals.container.status = "set"
    /\ ToLowerCase(signals.container.value) = name

\* one of the three Kubernetes signals is present
KubernetesSignalPresent ==
    \/ signals.serviceHost.status = "set" /\ Len(signals.serviceHost.value) > 0
    \/ signals.serviceAccount = "exists"
    \/ signals.dns.status = "ok" /\ signals.dns.addrs > 0

\* a primitive some probe calls fails
PrimitiveFails ==
    \/ signals.serviceHost.status = "denied"
    \/ signals.container.status = "denied"
    \/ "error" \in { signals.serviceAccount, signals.dockerenv, signals.nspawn,
                     signals.containerenv.exists }
    \/ signals.containerenv.exists = "exists" /\ signals.containerenv.read = "error"
    \/ signals.dns.status = "error"

\* C13: every probe is total: whichever primitive fails, no probe that a call
\* invokes throws; it returns true or false.
C13_ProbesTotal ==
    \A c \in Calls : \A p \in Invoked(c) :
        /\ p \in DOMAIN ProbeOutcomes(signals)
        /\ ProbeOutcomes(signals)[p] = outcome[p]
        /\ PrimitiveFails => outcome[p] \in { "true", "false" }

\* C14: the Kubernetes probe returns true whenever one of its three signals is
\* present, whatever the state of the other two, a failing read included.
C14_AnyKubernetesSignalSuffices ==
    \A c \in Calls :
        ("detectKubernetes" \in Invoked(c) /\ KubernetesSignalPresent) =>
            /\ DetectKubernetes(signals) = "true"
            /\ outcome["detectKubernetes"] = "true"

\* the probe that tests the "container" variable against each runtime name
ProbeOfName ==
    [ podman     |-> "detectPodman",
      crio       |-> "detectCrio",
      containerd |-> "detectContainerd",
      rkt        |-> "detectRkt",
      lxc        |-> "detectLXC",
      nspawn     |-> "detectSystemdNspawn" ]

\* C15: for any letter-case variant of podman, crio, containerd, rkt, lxc or
\* systemd-nspawn in the "container" variable, the probe of that runtime
\* returns true.
C15_CaseInsensitiveMatch ==
    \A c \in Calls : \A n \in DOMAIN ProbeOfName :
        (ProbeOfName[n] \in Invoked(c) /\ ContainerNames(RuntimeNames[n])) =>
            outcome[ProbeOfName[n]] = "true"

\* C19: with KUBERNETES_SERVICE_HOST non-empty, /run/.containerenv absent and
\* the "container" variable unset, a detection pass returns "Kubernetes (other)",
\* the (kubernetes, other) entry, whatever the service-account directory, DNS
\* and /.dockerenv are.
C19_ServiceHostAloneIsKubernetesOther ==
    ( /\ signals \in SignalSpace
      /\ signals.serviceHost.status = "set"
      /\ Len(signals.serviceHost.value) > 0
      /\ signals.containerenv.exists = "absent"
      /\ signals.container.status = "unset" ) =>
        \A c \in Calls : Passed(c) =>
            /\ call[c].result = ContainerPlatform.KubernetesOther
            /\ EntriesNamed(call[c].result) =
                   { [ type |-> "kubernetes", runtime |-> "other",
                       displayName |-> "Kubernetes (other)" ] }

C19_Witness ==
    /\ signals \in SignalSpace
    /\ signals.serviceHost.status = "set"
    /\ Len(signals.serviceHost.value) > 0
    /\ signals.containerenv.exists = "absent"
    /\ signals.container.status = "unset"
    /\ signals.serviceAccount = "error"
    /\ signals.dns.status = "error"
    /\ signals.dockerenv = "exists"
    /\ \E c \in Calls :
        /\ Passed(c)
        /\ call[c].invoked = << "detectKubernetes", "detectCrio", "detectDockerCgroup" >>
        /\ call[c].result = ContainerPlatform.KubernetesOther

\* C20: with no Kubernetes signal (KUBERNETES_SERVICE_HOST unset or empty, no
\* service-account directory, no address from DNS), no /.dockerenv and the
\* "container" variable equal to podman, a detection pass returns "Podman", the
\* (standalone, podman) entry.
C20_PodmanVariableIsStandalonePodman ==
    ( /\ signals \in SignalSpace
      /\ signals.serviceHost.status # "denied"
      /\ ~KubernetesSignalPresent
      /\ signals.dockerenv # "exists"
      /\ ContainerNames(RuntimeNames.podman) ) =>
        \A c \in Calls : Passed(c) =>
            /\ call[c].result = ContainerPlatform.Podman
            /\ EntriesNamed(call[c].result) =
                   { [ type |-> "standalone", runtime |-> "podman",
                       displayName |-> "Podman" ] }

C20_Witness ==
    /\ signals \in SignalSpace
    /\ signals.serviceHost = EnvUnset
    /\ signals.serviceAccount = "absent"
    /\ signals.dns = DnsError
    /\ signals.dockerenv = "absent"
    /\ signals.containerenv = FileAbsent
    /\ signals.container = EnvSet(RuntimeNames.podman)
    /\ \E c \in Calls :
        /\ Passed(c)
        /\ call[c].invoked = << "detectKubernetes", "detectDockerEnv", "detectPodman" >>
        /\ call[c].result = ContainerPlatform.Podman

----------------------------------------------------------------------------
(* resetCachedPlatform and concurrent calls (Spec, SpecWarm) *)

\* the state right after resetCachedPlatform: no entry, and the history of the
\* reset recorded
JustReset ==
    /\ cachedResult = {}
    /\ resetPending
    /\ \A c \in Calls : Started(c) => call[c].resetSince

\* C16: resetCachedPlatform can always be called; it leaves the cache slot empty
\* and changes nothing else of the program's state (time, probes and calls:
\* only the history fields record it); called right after itself, and so also
\* on an empty cache, it leaves the state as it is.
C16_ResetIdempotent ==
    /\ [](ENABLED ResetCachedPlatform)
    /\ [][ ResetCachedPlatform =>
             /\ cachedResult' = {}
             /\ JustReset'
             /\ UNCHANGED << signals, outcome, clock >>
             /\ \A c \in Calls :
                    call'[c] = [ call[c] EXCEPT !.resetSince = call'[c].resetSince ]
             /\ JustReset => UNCHANGED vars ]_vars

\* resetCachedPlatform has run on the empty cache of a fresh process
C16_Witness == JustReset /\ \A c \in Calls : call[c] = IdleCall

\* call c ran probes without forceRefresh and no resetCachedPlatform is involved
PlainPass(c) ==
    /\ Started(c)
    /\ ~call[c].hit
    /\ call[c].invoked # << >>
    /\ ~call[c].forceRefresh
    /\ ~call[c].resetSince
    /\ ~call[c].afterReset

\* C18: with no forceRefresh and no reset, two calls that both run probes,
\* overlapping ones included, are more than 30 seconds apart.
C18_OnePassPerWindow ==
    \A c, d \in Calls :
        (c < d /\ PlainPass(c) /\ PlainPass(d)) =>
            call[d].now - call[c].now > CACHE_TTL_MS

\* the entries the cache slot can hold: the one of the earlier pass and the
\* ones stored by calls that have returned from a pass
CompletedEntries ==
    { CacheEntry(PassResult(outcome), 0) }
        \cup UNION { call[c].wrote : c \in { d \in Calls : Passed(d) } }

\* call c entered without forceRefresh and found an entry at most 30 seconds old
WithinWindow(c) ==
    /\ Started(c)
    /\ ~call[c].forceRefresh
    /\ call[c].seen # {}
    /\ SeenAge(c) <= CACHE_TTL_MS

\* C17: every call without forceRefresh that enters within the TTL window of
\* the entry in the cache returns that entry's platform and invokes no probe,
\* also while another pass is in flight; the slot never holds anything but the
\* entry of a completed pass, so calls that find the same entry return the same
\* platform.
C17_CallsInWindowSeeCachedValue ==
    /\ cachedResult \subseteq CompletedEntries
    /\ \A c \in Calls : WithinWindow(c) =>
          /\ Returned(c)
          /\ call[c].hit
          /\ call[c].invoked = << >>
          /\ call[c].seen \subseteq CompletedEntries
          /\ call[c].result = Entry(call[c].seen).platform
    /\ \A c, d \in Calls :
          (WithinWindow(c) /\ WithinWindow(d) /\ call[c].seen = call[d].seen) =>
              call[c].result = call[d].result

\* a forceRefresh pass is in flight and a call made after its entry has
\* returned the cached platform
C17_Witness ==
    \E c, d \in Calls :
        /\ c < d
        /\ call[c].forceRefresh
        /\ InFlight(c)
        /\ call[c].seen # {}
        /\ WithinWindow(d)
        /\ call[d].hit
        /\ call[d].seen = call[c].seen
        /\ cachedResult = call[d].seen

----------------------------------------------------------------------------
(* The course of one pass (SpecSeq) *)

\* the probes of the Kubernetes branch and of the standalone branch, in the
\* order of the specification, the gate first
KubernetesBranchOrder == << "detectKubernetes", "detectCrio", "detectDockerCgroup" >>

StandaloneBranchOrder ==
    << "detectKubernetes", "detectDockerEnv", "detectPodman", "detectCrio",
       "detectDockerCgroup", "detectContainerd", "detectRkt", "detectLXC",
       "detectSystemdNspawn" >>

\* the order a pass follows in the environment of this run
BranchOrder ==
    IF outcome["detectKubernetes"] = "true" THEN KubernetesBranchOrder
    ELSE StandaloneBranchOrder

IsPrefix(s, t) == Len(s) <= Len(t) /\ s = SubSeq(t, 1, Len(s))

\* the probes of call c follow the fixed order
InFixedOrder(c) == IsPrefix(call[c].invoked, BranchOrder)

\* C21 as stated: the probes of a pass follow the fixed order and, once any
\* probe of the pass has returned true, no later probe is invoked: only the
\* last probe a call has invoked can be true.
C21_NoProbeAfterTrue ==
    \A c \in Calls :
        /\ InFixedOrder(c)
        /\ \A i \in 1 .. (Len(call[c].invoked) - 1) :
              outcome[call[c].invoked[i]] # "true"

\* C21 amended: the probes of a pass follow the fixed order, one is started per
\* step and only when the pass is at its entry or the probe pending before it
\* settles in that step, and once a probe other than the Kubernetes gate has
\* returned true no later probe is invoked (after a true gate the probes of the
\* Kubernetes branch follow).
C21_OneAtATimeInOrder ==
    /\ [](\A c \in Calls :
            /\ InFixedOrder(c)
            /\ \A i \in 2 .. (Len(call[c].invoked) - 1) :
                  outcome[call[c].invoked[i]] # "true")
    /\ [][ \A c \in Calls :
             call'[c].invoked # call[c].invoked =>
                 /\ Len(call'[c].invoked) = Len(call[c].invoked) + 1
                 /\ IsPrefix(call[c].invoked, call'[c].invoked)
                 /\ IF call[c].invoked = << >>
                    THEN call[c].pc = "idle"
                    ELSE /\ InFlight(c)
                         /\ call'[c].idx # call[c].idx \/ call'[c].pc # call[c].pc ]_vars

\* a pass found the gate true, CRI-O false and the cgroup check true, and
\* stopped there
C21_Witness ==
    \E c \in Calls :
        /\ Passed(c)
        /\ call[c].invoked = KubernetesBranchOrder
        /\ outcome["detectKubernetes"] = "true"
        /\ outcome["detectCrio"] = "false"
        /\ outcome["detectDockerCgroup"] = "true"
        /\ call[c].result = ContainerPlatform.KubernetesDocker

\* the probes that only the standalone sequence invokes
StandaloneOnlyProbes ==
    { "detectDockerEnv", "detectPodman", "detectContainerd", "detectRkt",
      "detectLXC", "detectSystemdNspawn" }

\* the categories of the entries labelled p
CategoriesOf(p) == { e.type : e \in EntriesNamed(p) }

\* C22: when the Kubernetes probe returns true the pass invokes none of the
\* Docker marker, Podman, containerd, rkt, LXC/LXD and systemd-nspawn probes and
\* its result has category kubernetes, whatever the Docker marker probe would
\* have answered; when it returns false or throws the result never has category
\* kubernetes.
C22_GateDecidesBranch ==
    \A c \in Calls :
        IF outcome["detectKubernetes"] = "true"
        THEN /\ Invoked(c) \cap StandaloneOnlyProbes = {}
             /\ Passed(c) =>
                   /\ CategoriesOf(call[c].result) = { "kubernetes" }
                   /\ \A o \in Outcomes :
                         call[c].result =
                             PassResult([ outcome EXCEPT !["detectDockerEnv"] = o ])
        ELSE Passed(c) =>
                 /\ CategoriesOf(call[c].result) # {}
                 /\ "kubernetes" \notin CategoriesOf(call[c].result)

\* the gate was true and the Docker marker present, and the pass ended in the
\* Kubernetes branch without asking for the marker
C22_Witness ==
    \E c \in Calls :
        /\ Passed(c)
        /\ outcome["detectKubernetes"] = "true"
        /\ outcome["detectDockerEnv"] = "true"
        /\ outcome["detectCrio"] = "false"
        /\ outcome["detectDockerCgroup"] = "false"
        /\ "detectDockerEnv" \notin Invoked(c)
        /\ call[c].result = ContainerPlatform.KubernetesOther

\* the labels under which the probes of the two orders are logged
KubernetesBranchLabels ==
    << "Kubernetes", "Kubernetes (CRI-O)", "Kubernetes (Docker)" >>

StandaloneBranchLabels ==
    << "Kubernetes", "Docker", "Podman", "CRI-O", "Docker (via cgroup)",
       "containerd", "rkt", "LXC/LXD", "systemd-nspawn" >>

BranchLabels ==
    IF outcome["detectKubernetes"] = "true" THEN KubernetesBranchLabels
    ELSE StandaloneBranchLabels

\* the labels of the probes among the first n of the order that throw, in order
RECURSIVE ThrownLabels(_)
ThrownLabels(n) ==
    IF n = 0 THEN << >>
    ELSE IF outcome[BranchOrder[n]] = "throw"
    THEN Append(ThrownLabels(n - 1), BranchLabels[n])
    ELSE ThrownLabels(n - 1)

\* the environment of this run with every throwing probe returning false
ThrowsAsFalse == [ p \in Probes |-> IF outcome[p] = "throw" THEN "false" ELSE outcome[p] ]

\* the number of probes a pass invokes in environment env: up to the first
\* probe after the gate that is true, or the whole order
ProbesUntilMatch(env, order) ==
    IF \E i \in 2 .. Len(order) : env[order[i]] = "true"
    THEN CHOOSE i \in 2 .. Len(order) :
            /\ env[order[i]] = "true"
            /\ \A j \in 2 .. (i - 1) : env[order[j]] # "true"
    ELSE Len(order)

\* C23: a pass logs exactly one error entry, with the probe's label, for each
\* probe of it that throws, in order, and goes on exactly as after false: it
\* invokes the probes, and returns the platform, of the run in which every
\* throwing probe returns false, so a later true probe still decides.
C23_ThrowLoggedOnceAndPassedOver ==
    \A c \in Calls : Passed(c) =>
        LET n == Len(call[c].invoked)
        IN  /\ call[c].errors = ThrownLabels(n)
            /\ n = ProbesUntilMatch(ThrowsAsFalse, BranchOrder)
            /\ call[c].invoked = SubSeq(BranchOrder, 1, n)
            /\ call[c].result =
                   IF n > 1 /\ outcome[BranchOrder[n]] = "true" THEN BranchLabels[n]
                   ELSE IF outcome["detectKubernetes"] = "true"
                   THEN "Kubernetes (other)"
                   ELSE "Host (no recognized container)"

\* the gate and the Docker marker probe threw, Podman was true: two entries
\* logged and the pass returned Podman
C23_Witness ==
    \E c \in Calls :
        /\ Passed(c)
        /\ outcome["detectKubernetes"] = "throw"
        /\ outcome["detectDockerEnv"] = "throw"
        /\ outcome["detectPodman"] = "true"
        /\ call[c].errors = << "Kubernetes", "Docker" >>
        /\ call[c].result = ContainerPlatform.Podman

----------------------------------------------------------------------------
(* The cache entry and time (Spec, SpecWarm) *)

\* C24: the timestamp of the entry a pass stores is the time at which it is
\* stored: right after the write the entry has age 0, however long the pass took.
C24_TimestampIsWriteTime ==
    [][ \A c \in Calls :
          (InFlight(c) /\ call'[c].pc = "returned") =>
              /\ cachedResult' # {}
              /\ \A e \in cachedResult' : clock' - e.timestamp = 0 ]_vars

\* C27: with no reset in between, the timestamp in the cache slot never
\* decreases from one write to the next: the entry that remains is the one of
\* the pass started last.
C27_TimestampNeverDecreases ==
    [][ (cachedResult # {} /\ cachedResult' # {}) =>
            Entry(cachedResult').timestamp >= Entry(cachedResult).timestamp ]_vars

----------------------------------------------------------------------------
(* Overlapping passes (SpecRace) *)

\* C25: with probe outcomes that do not change, whatever the interleaving of
\* the calls, with or without forceRefresh, every call returns the platform a
\* single call on its own computes, the cache never holds another one, and it
\* holds that one once a pass has ended.
C25_RaceIsBenign ==
    /\ \A c \in Calls : Returned(c) => call[c].result = PassResult(outcome)
    /\ \A e \in cachedResult : e.platform = PassResult(outcome)
    /\ (\E c \in Calls : Passed(c)) => cachedResult # {}

\* two passes overlapped, both from an empty cache, and went through the
\* standalone sequence up to Podman
C25_Witness ==
    /\ \A c \in Calls : Passed(c) /\ call[c].seen = {} /\ ~call[c].forceRefresh
    /\ \A c \in Calls : call[c].result = ContainerPlatform.Podman
    /\ \A e \in cachedResult : e.platform = ContainerPlatform.Podman

----------------------------------------------------------------------------
(* The cache slot (SpecWarm) *)

\* C26: the slot is empty or holds one complete entry, stored by a pass that
\* has ended; a pass in flight has stored nothing and a pass that has ended has
\* stored one entry; the slot gets an entry only in the step in which a pass
\* settles its last probe and returns, and that pass stores only then; what a
\* call finds in the slot at its entry is empty or the entry of an ended pass.
C26_NoPartialEntry ==
    /\ [](/\ cachedResult \subseteq [ platform : ContainerPlatformValues,
                                      timestamp : TimePoints ]
          /\ Cardinality(cachedResult) <= 1
          /\ cachedResult \subseteq CompletedEntries
          /\ \A c \in Calls :
                /\ (InFlight(c) \/ call[c].hit \/ ~Started(c)) => call[c].wrote = {}
                /\ Passed(c) => Cardinality(call[c].wrote) = 1
                /\ Started(c) => call[c].seen \subseteq CompletedEntries)
    /\ [][ /\ (cachedResult' # cachedResult /\ cachedResult' # {}) =>
                \E c \in Calls :
                    /\ InFlight(c)
                    /\ call'[c].pc = "returned"
                    /\ call'[c].invoked = call[c].invoked
                    /\ cachedResult' = call'[c].wrote
           /\ \A c \in Calls :
                call'[c].wrote # call[c].wrote =>
                    /\ InFlight(c)
                    /\ call'[c].pc = "returned"
                    /\ cachedResult' = call'[c].wrote ]_vars

\* while a pass has settled its first probe and waits for the next, having
\* stored nothing, another call has returned the entry of the earlier pass
C26_Witness ==
    \E c, d \in Calls :
        /\ c # d
        /\ InFlight(c)
        /\ Len(call[c].invoked) >= 2
        /\ call[c].wrote = {}
        /\ call[d].hit
        /\ call[d].seen = { CacheEntry(PassResult(outcome), 0) }
        /\ cachedResult = call[d].seen

\* C28: a call that returns the cached platform leaves the slot as it is,
\* platform and timestamp, so reading an entry does not extend its life: a call
\* without forceRefresh that finds an entry hits it only up to 30 seconds after
\* the entry's timestamp.
C28_HitLeavesCacheAlone ==
    /\ [][ \A c \in Calls :
             (call[c].pc = "idle" /\ call'[c].pc = "returned") =>
                 /\ call'[c].hit
                 /\ cachedResult' = cachedResult
                 /\ cachedResult' = call'[c].seen ]_vars
    /\ [](\A c \in Calls :
            (Started(c) /\ call[c].seen # {} /\ SeenAge(c) > CACHE_TTL_MS) =>
                ~call[c].hit)

\* the entry of time 0 was read when it was 30000 ms old, and the call made one
\* millisecond later found the same entry and did not use it
C28_Witness ==
    \E c, d \in Calls :
        /\ call[c].hit
        /\ call[c].now = CACHE_TTL_MS
        /\ call[c].seen = { CacheEntry(PassResult(outcome), 0) }
        /\ Started(d)
        /\ ~call[d].forceRefresh
        /\ call[d].now = CACHE_TTL_MS + 1
        /\ call[d].seen = call[c].seen
        /\ ~call[d].hit

----------------------------------------------------------------------------
(* Termination (SpecSeqFair) *)

\* the most probes a pass invokes on the Kubernetes branch and on the
\* standalone branch, the gate included
MaxProbesKubernetes == 3
MaxProbesStandalone == 9

\* C29: a pass invokes no probe twice, at most 3 probes when the gate is true
\* and at most 9 otherwise, and, probes settling, whenever a pass is in flight
\* a moment follows at which every call made so far has returned.
C29_EveryCallReturns ==
    /\ [](\A c \in Calls :
            /\ Cardinality(Invoked(c)) = Len(call[c].invoked)
            /\ Len(call[c].invoked) <=
                   IF outcome["detectKubernetes"] = "true"
                   THEN MaxProbesKubernetes ELSE MaxProbesStandalone)
    /\ (\E c \in Calls : InFlight(c)) ~> (\A c \in Calls : Started(c) => Returned(c))

\* a pass in which every probe threw has invoked all 9 and returned the host
C29_Witness ==
    \E c \in Calls :
        /\ Passed(c)
        /\ \A p \in Probes : outcome[p] = "throw"
        /\ Len(call[c].invoked) = MaxProbesStandalone
        /\ call[c].result = ContainerPlatform.Host

----------------------------------------------------------------------------
(* The evidence of the Kubernetes probe (SpecSignals) *)

\* the primitives of the Kubernetes probe in the order of the specification
KubernetesEvidenceOrder == << "env", "exists", "resolveDns" >>

\* KUBERNETES_SERVICE_HOST was read and is unset or empty
ServiceHostAbsentOrEmpty ==
    \/ signals.serviceHost.status = "unset"
    \/ signals.serviceHost.status = "set" /\ signals.serviceHost.value = << >>

\* C30: the Kubernetes probe reads the environment variable, then checks the
\* service-account directory, then resolves the DNS name, and stops at the
\* first positive signal: it attempts the DNS resolution exactly when the
\* variable is unset or empty and the directory check did not return true, a
\* failed directory check included.
C30_KubernetesEvidenceInOrder ==
    \A c \in Calls : "detectKubernetes" \in Invoked(c) =>
        LET r  == DetectKubernetesRun(signals)
            n  == Len(r.io)
        IN  /\ outcome["detectKubernetes"] = r.outcome
            /\ n >= 1
            /\ IsPrefix(r.io, KubernetesEvidenceOrder)
            /\ n = 3 <=> (ServiceHostAbsentOrEmpty /\ signals.serviceAccount # "exists")
            /\ n = 2 <=> (ServiceHostAbsentOrEmpty /\ signals.serviceAccount = "exists")
            /\ (n < 3 /\ signals.serviceHost.status # "denied") => r.outcome = "true"
            /\ (n = 3 /\ r.outcome = "true") =>
                   (signals.dns.status = "ok" /\ signals.dns.addrs > 0)

\* the variable was unset, the directory check failed and the DNS name
\* resolved: the probe was true and the pass took the Kubernetes branch
C30_Witness ==
    /\ signals \in SignalSpace
    /\ signals.serviceHost = EnvUnset
    /\ signals.serviceAccount = "error"
    /\ signals.dns = DnsFound(1)
    /\ DetectKubernetesRun(signals).io = KubernetesEvidenceOrder
    /\ \E c \in Calls :
          /\ Passed(c)
          /\ call[c].invoked[1] = "detectKubernetes"
          /\ CategoriesOf(call[c].result) = { "kubernetes" }

====
